---- MODULE Spec2Model ----
(***************************************************************************)
(* Model of planner.DDLPlan (src/src/planner/ddl_plan.go): the plan built  *)
(* for one parsed DDL statement.  Strings that the code inspects character *)
(* by character (the raw query, identifiers) are sequences of one-character*)
(* strings; the empty Go string is the empty sequence.                     *)
(***************************************************************************)
EXTENDS Integers, Sequences, FiniteSets, TLC

VARIABLES node, database, RawQuery, typ, ReqMode, Querys, router,
          err, builds, trace, ret

vars == <<node, database, RawQuery, typ, ReqMode, Querys, router,
          err, builds, trace, ret>>

(***************************************************************************)
(* Bounds of the model.                                                    *)
(***************************************************************************)
MaxBuilds == 2
MaxSegs == 2
MaxCols == 1
MaxIdx == 1

(***************************************************************************)
(* Characters.  \b of Go's regexp is the ASCII word boundary: a word       *)
(* character is one of [0-9A-Za-z_].                                       *)
(***************************************************************************)
WordChars == {"a", "b", "c", "d", "i", "t", "T", "_", "0", "1"}
IsWordChar(c) == c \in WordChars

\* The backtick character (the string "bq" stands for it: a TLA+ string
\* cannot hold a backtick).
Bq == "bq"

(***************************************************************************)
(* strings.Replace(s, backtick, "", n): s without its first n backticks.   *)
(***************************************************************************)
RECURSIVE StripBackticks(_, _)
StripBackticks(s, n) ==
  IF s = <<>> \/ n = 0 THEN s
  ELSE IF Head(s) = Bq THEN StripBackticks(Tail(s), n - 1)
  ELSE <<Head(s)>> \o StripBackticks(Tail(s), n)

(***************************************************************************)
(* The compiled expression \b(pat)\b.  The name is put in the pattern      *)
(* unescaped, so a "." of the pattern matches any character but a newline. *)
(***************************************************************************)
PatChar(p, c) == IF p = "." THEN c # "\n" ELSE p = c

WordAt(s, i) == i >= 1 /\ i <= Len(s) /\ IsWordChar(s[i])

\* \b holds between s[i-1] and s[i]
Boundary(s, i) == WordAt(s, i - 1) # WordAt(s, i)

MatchAt(s, pat, i) ==
  /\ i + Len(pat) - 1 <= Len(s)
  /\ \A k \in 1..Len(pat) : PatChar(pat[k], s[i + k - 1])
  /\ Boundary(s, i)
  /\ Boundary(s, i + Len(pat))

(***************************************************************************)
(* re.ReplaceAllString(s, repl): every non-overlapping match, leftmost     *)
(* first, is replaced.  repl holds no "$", so no template expansion.       *)
(***************************************************************************)
\* ReplaceFrom that stops after its first replacement
RECURSIVE ReplaceFromOnce(_, _, _, _)
ReplaceFromOnce(s, pat, repl, i) ==
  IF i > Len(s) THEN <<>>
  ELSE IF MatchAt(s, pat, i) /\ pat # <<>>
    THEN repl \o SubSeq(s, i + Len(pat), Len(s))
  ELSE <<s[i]>> \o ReplaceFromOnce(s, pat, repl, i + 1)

RECURSIVE ReplaceFrom(_, _, _, _)
ReplaceFrom(s, pat, repl, i) ==
  IF i > Len(s)
    THEN (IF pat = <<>> /\ MatchAt(s, pat, i) THEN repl ELSE <<>>)
  ELSE IF MatchAt(s, pat, i)
    THEN IF pat = <<>>
           THEN repl \o <<s[i]>> \o ReplaceFrom(s, pat, repl, i + 1)
           ELSE repl \o ReplaceFrom(s, pat, repl, i + Len(pat))
  ELSE <<s[i]>> \o ReplaceFrom(s, pat, repl, i + 1)

ReplaceAllString(s, pat, repl) == ReplaceFrom(s, pat, repl, 1)

\* fmt.Sprintf of the two names, each in backticks, with a dot between
QuotedName(db, segTable) == <<Bq>> \o db \o <<Bq, ".", Bq>> \o segTable \o <<Bq>>

\* fmt.Sprintf("%s.%s", database, table)
DottedName(db, table) == db \o <<".">> \o table

(***************************************************************************)
(* The query of one segment (the body of the loop over the segments).      *)
(***************************************************************************)
RewriteQuery(raw, qualifier, db, table, segTable) ==
  IF qualifier = <<>>
    THEN ReplaceAllString(StripBackticks(raw, 2), table, QuotedName(db, segTable))
    ELSE ReplaceAllString(StripBackticks(raw, 4), DottedName(db, table),
                          QuotedName(db, segTable))

(***************************************************************************)
(* Errors.  An error is its MySQL number and state (0 and "" for an error  *)
(* made by errors.New) and its text, a format with at most one argument.   *)
(***************************************************************************)
Nil == [Num |-> 0, State |-> "", Format |-> "", Arg |-> <<>>]

NewError(text) == [Num |-> 0, State |-> "", Format |-> text, Arg |-> <<>>]

ErrDropShardKey == NewError("unsupported: cannot.drop.the.column.on.shard.key")

ErrModifyShardKey == NewError("unsupported: cannot.modify.the.column.on.shard.key")

ErrConstraint(shardKey) ==
  [Num |-> 0, State |-> "",
   Format |-> "The unique/primary constraint should be only defined on the sharding key column[%s]",
   Arg |-> shardKey]

\* errors of the router
ErrUnknownDatabase(db) ==
  [Num |-> 1049, State |-> "42000", Format |-> "Unknown database '%s'", Arg |-> db]

ErrTableDoesntExist(table) ==
  [Num |-> 1146, State |-> "42S02", Format |-> "Table '%s' doesn't exist", Arg |-> table]

ErrRouterInternal == NewError("router.lookup.error")

(***************************************************************************)
(* Actions and column key options of the parser.                           *)
(***************************************************************************)
CreateDBStr == "create database"
DropDBStr == "drop database"
CreateTableStr == "create table"
DropTableStr == "drop table"
TruncateTableStr == "truncate table"
AlterEngineStr == "alter engine"
AlterCharsetStr == "alter charset"
AlterAddColumnStr == "alter add column"
AlterDropColumnStr == "alter drop column"
AlterModifyColumnStr == "alter modify column"
CreateIndexStr == "create index"
DropIndexStr == "drop index"
CreateFulltextIndexStr == "create fulltext index"

DatabaseActions == {CreateDBStr, DropDBStr}
PlainActions == {DropTableStr, TruncateTableStr, AlterEngineStr, AlterCharsetStr,
                 CreateIndexStr, DropIndexStr, CreateFulltextIndexStr}
TableActions == PlainActions \cup {CreateTableStr, AlterAddColumnStr,
                                   AlterDropColumnStr, AlterModifyColumnStr}

ColKeyNone == "colKeyNone"
ColKeyPrimary == "ColKeyPrimary"
ColKeyUnique == "ColKeyUnique"
ColKeyUniqueKey == "ColKeyUniqueKey"
ColKey == "ColKey"
KeyOpts == {ColKeyNone, ColKeyPrimary, ColKeyUnique, ColKeyUniqueKey, ColKey}

\* the case list of the two switches on KeyOpt
ConstraintKeyOpts == {ColKeyUnique, ColKeyUniqueKey, ColKeyPrimary, ColKey}

(***************************************************************************)
(* The router.  It holds one schema with one table; ShardKey and Lookup    *)
(* find the table or fail.                                                 *)
(***************************************************************************)
RouterGetTable(rt, db, table) ==
  IF db # rt.database THEN ErrUnknownDatabase(db)
  ELSE IF table # rt.table THEN ErrTableDoesntExist(table)
  ELSE Nil

ShardKey(rt, db, table) ==
  LET e == RouterGetTable(rt, db, table)
  IN  IF e # Nil THEN [key |-> <<>>, err |-> e]
      ELSE [key |-> rt.shardKey, err |-> Nil]

Lookup(rt, db, table) ==
  LET e == RouterGetTable(rt, db, table)
  IN  IF e # Nil THEN [segments |-> <<>>, err |-> e]
      ELSE IF rt.lookupErr THEN [segments |-> <<>>, err |-> ErrRouterInternal]
      ELSE [segments |-> rt.segments, err |-> Nil]

\* segment.Range.String()
Digit(n) == <<"0", "1", "2", "3", "4", "5", "6", "7", "8", "9">>[n + 1]
RangeString(r) == <<"[", Digit(r.Start), "-", Digit(r.End), ")">>

(***************************************************************************)
(* Build, piece by piece.                                                  *)
(***************************************************************************)
\* ResolveDatabase that prefers the database of the session
ResolveDatabaseSessionFirst(n, sessionDB) ==
  IF sessionDB # <<>> THEN sessionDB ELSE n.Table.Qualifier

\* the database of the statement: the qualifier when there is one
ResolveDatabase(n, sessionDB) ==
  IF n.Table.Qualifier # <<>> THEN n.Table.Qualifier ELSE sessionDB

\* CheckDropColumn without the comparison
CheckDropColumnNever(n, shardKey) == Nil

\* case AlterDropColumnStr
CheckDropColumn(n, shardKey) ==
  IF shardKey = n.DropColumnName THEN ErrDropShardKey ELSE Nil

\* CheckModifyColumn with the constraint check first
CheckModifyColumnConstraintFirst(n, shardKey) ==
  IF n.ModifyColumnDef.Type.KeyOpt \in ConstraintKeyOpts THEN ErrConstraint(shardKey)
  ELSE IF shardKey = n.ModifyColumnDef.Name THEN ErrModifyShardKey
  ELSE Nil

\* CheckModifyColumn with ColKey missing from the case list
CheckModifyColumnNoColKey(n, shardKey) ==
  IF shardKey = n.ModifyColumnDef.Name THEN ErrModifyShardKey
  ELSE IF n.ModifyColumnDef.Type.KeyOpt \in {ColKeyUnique, ColKeyUniqueKey, ColKeyPrimary}
    THEN ErrConstraint(shardKey)
  ELSE Nil

\* case AlterModifyColumnStr
CheckModifyColumn(n, shardKey) ==
  IF shardKey = n.ModifyColumnDef.Name THEN ErrModifyShardKey
  ELSE IF n.ModifyColumnDef.Type.KeyOpt \in ConstraintKeyOpts THEN ErrConstraint(shardKey)
  ELSE Nil

\* case AlterAddColumnStr
CheckAddColumn(n, shardKey) ==
  IF \E i \in 1..Len(n.TableSpec.Columns) :
        n.TableSpec.Columns[i].Type.KeyOpt \in ConstraintKeyOpts
    THEN ErrConstraint(shardKey)
  ELSE IF \E i \in 1..Len(n.TableSpec.Indexes) :
             \/ n.TableSpec.Indexes[i].Info.Unique
             \/ n.TableSpec.Indexes[i].Info.Primary
    THEN ErrConstraint(shardKey)
  ELSE Nil

\* CheckShardKey without the test of the empty shard key
CheckShardKeyUnguarded(n, shardKey) ==
  IF n.Action = AlterDropColumnStr THEN CheckDropColumn(n, shardKey)
  ELSE IF n.Action = AlterModifyColumnStr THEN CheckModifyColumn(n, shardKey)
  ELSE IF n.Action = AlterAddColumnStr THEN CheckAddColumn(n, shardKey)
  ELSE Nil

\* the checks made when the shard key is not empty
CheckShardKey(n, shardKey) ==
  IF shardKey = <<>> THEN Nil
  ELSE IF n.Action = AlterDropColumnStr THEN CheckDropColumn(n, shardKey)
  ELSE IF n.Action = AlterModifyColumnStr THEN CheckModifyColumn(n, shardKey)
  ELSE IF n.Action = AlterAddColumnStr THEN CheckAddColumn(n, shardKey)
  ELSE Nil

\* the tuple appended for one segment
SegmentTuple(raw, n, db, segment) ==
  [Query   |-> RewriteQuery(raw, n.Table.Qualifier, db, n.Table.Name, segment.Table),
   Backend |-> segment.Backend,
   Range   |-> RangeString(segment.Range)]

\* SegmentTuples in the reverse order
SegmentTuplesReversed(raw, n, db, segments) ==
  [i \in 1..Len(segments) |-> SegmentTuple(raw, n, db, segments[Len(segments) + 1 - i])]

SegmentTuples(raw, n, db, segments) ==
  [i \in 1..Len(segments) |-> SegmentTuple(raw, n, db, segments[i])]

\* what Build's calls look like in the trace
CallShardKey(db, table) == [fn |-> "ShardKey", db |-> db, table |-> table, bounds |-> <<>>]
CallLookup(db, table) ==
  [fn |-> "Lookup", db |-> db, table |-> table, bounds |-> <<"nil", "nil">>]
CallAppend(db, segment) ==
  [fn |-> "append", db |-> db, table |-> segment.Table, bounds |-> <<>>]

(***************************************************************************)
(* Build as a function of the plan: the new ReqMode and Querys, the error  *)
(* returned, and the router calls and appends made, in order.              *)
(***************************************************************************)
\* ScatterPlan that forgets the mode
ScatterPlanKeepsMode(reqMode, querys) ==
  [ReqMode |-> reqMode, Querys |-> querys, err |-> Nil, calls |-> <<>>]

\* case CreateDBStr
ScatterPlan(reqMode, querys) ==
  [ReqMode |-> "ReqScatter", Querys |-> querys, err |-> Nil, calls |-> <<>>]

\* Failed that returns a new error in place of e
FailedWrapped(reqMode, querys, e, calls) ==
  [ReqMode |-> reqMode, Querys |-> querys,
   err |-> NewError("planner.build.error"), calls |-> calls]

\* a return of the error e
Failed(reqMode, querys, e, calls) ==
  [ReqMode |-> reqMode, Querys |-> querys, err |-> e, calls |-> calls]

\* LookupPlan that appends the tuples before it asks the router
LookupPlanAppendsFirst(n, db, raw, reqMode, querys, rt, calls) ==
  LET table == n.Table.Name
      lk == Lookup(rt, db, table)
  IN  [ReqMode |-> reqMode,
       Querys |-> querys \o SegmentTuples(raw, n, db, rt.segments),
       err |-> lk.err,
       calls |-> calls \o [i \in 1..Len(rt.segments) |-> CallAppend(db, rt.segments[i])]
                   \o <<CallLookup(db, table)>>]

\* from the call of Lookup to the end
LookupPlan(n, db, raw, reqMode, querys, rt, calls) ==
  LET table == n.Table.Name
      lk == Lookup(rt, db, table)
  IN  IF lk.err # Nil
        THEN Failed(reqMode, querys, lk.err, calls \o <<CallLookup(db, table)>>)
      ELSE [ReqMode |-> reqMode,
            Querys |-> querys \o SegmentTuples(raw, n, db, lk.segments),
            err |-> Nil,
            calls |-> calls \o <<CallLookup(db, table)>>
                        \o [i \in 1..Len(lk.segments) |-> CallAppend(db, lk.segments[i])]]

\* TablePlan that returns nil when ShardKey fails
TablePlanDropsShardKeyError(n, sessionDB, raw, reqMode, querys, rt) ==
  LET table == n.Table.Name
      db == ResolveDatabase(n, sessionDB)
      sk == ShardKey(rt, db, table)
      check == CheckShardKey(n, sk.key)
      calls == <<CallShardKey(db, table)>>
  IN  IF sk.err # Nil THEN Failed(reqMode, querys, Nil, calls)
      ELSE IF check # Nil THEN Failed(reqMode, querys, check, calls)
      ELSE LookupPlan(n, db, raw, reqMode, querys, rt, calls)

\* the default case
TablePlan(n, sessionDB, raw, reqMode, querys, rt) ==
  LET table == n.Table.Name
      db == ResolveDatabase(n, sessionDB)
      sk == ShardKey(rt, db, table)
      check == CheckShardKey(n, sk.key)
      calls == <<CallShardKey(db, table)>>
  IN  IF sk.err # Nil THEN Failed(reqMode, querys, sk.err, calls)
      ELSE IF check # Nil THEN Failed(reqMode, querys, check, calls)
      ELSE LookupPlan(n, db, raw, reqMode, querys, rt, calls)

BuildPlan(n, sessionDB, raw, reqMode, querys, rt) ==
  IF n.Action = CreateDBStr
    THEN ScatterPlan(reqMode, querys)
    ELSE TablePlan(n, sessionDB, raw, reqMode, querys, rt)

(***************************************************************************)
(* Statements.  A node holds the fields of sqlparser.DDL that Build reads; *)
(* the parser leaves the fields that an action does not use at their zero  *)
(* values.                                                                 *)
(***************************************************************************)
SeqsUpTo(S, n) == UNION {[1..k -> S] : k \in 0..n}

DbNames == {<<"d">>, <<"t">>}
TableNames == {<<"t">>, <<"a", "b">>}
ColNames == {<<"a">>, <<"b">>}

ColDefs == [Name : ColNames, Type : [KeyOpt : KeyOpts]]
IndexDefs ==
  {[Info |-> [Unique |-> TRUE, Primary |-> FALSE], Columns |-> <<<<"a">>>>],
   [Info |-> [Unique |-> FALSE, Primary |-> TRUE], Columns |-> <<<<"a">>>>],
   [Info |-> [Unique |-> TRUE, Primary |-> FALSE], Columns |-> <<<<"a">>, <<"b">>>>],
   [Info |-> [Unique |-> FALSE, Primary |-> FALSE], Columns |-> <<<<"b">>>>]}
TableSpecs == [Columns : SeqsUpTo(ColDefs, MaxCols), Indexes : SeqsUpTo(IndexDefs, MaxIdx)]

ZeroColDef == [Name |-> <<>>, Type |-> [KeyOpt |-> ColKeyNone]]
ZeroTableSpec == [Columns |-> <<>>, Indexes |-> <<>>]
PlainColDef == [Name |-> <<"b">>, Type |-> [KeyOpt |-> ColKeyNone]]

\* every statement of an action on a table
NodesOf(action, name, qualifier) ==
  {[Action |-> action,
    Table |-> [Name |-> name, Qualifier |-> qualifier],
    DropColumnName |-> d, ModifyColumnDef |-> m, TableSpec |-> ts] :
     d \in (IF action = AlterDropColumnStr THEN ColNames ELSE {<<>>}),
     m \in (IF action = AlterModifyColumnStr THEN ColDefs ELSE {ZeroColDef}),
     ts \in (IF action \in {AlterAddColumnStr, CreateTableStr}
               THEN TableSpecs ELSE {ZeroTableSpec})}

\* one statement of an action on a table
NodeOf(action, name, qualifier) ==
  [Action |-> action,
   Table |-> [Name |-> name, Qualifier |-> qualifier],
   DropColumnName |-> IF action = AlterDropColumnStr THEN <<"b">> ELSE <<>>,
   ModifyColumnDef |-> IF action = AlterModifyColumnStr THEN PlainColDef ELSE ZeroColDef,
   TableSpec |-> IF action \in {AlterAddColumnStr, CreateTableStr}
                   THEN [Columns |-> <<PlainColDef>>, Indexes |-> <<>>]
                   ELSE ZeroTableSpec]

(***************************************************************************)
(* Raw queries.  A raw query is a run of keywords, the table as the client *)
(* wrote it, and the rest of the statement.  "c" stands for the keywords;  *)
(* a statement on an index names the index, in backticks, before the table.*)
(***************************************************************************)
Sp == " "
Quoted(name) == <<Bq>> \o name \o <<Bq>>

RawPrefix(action) ==
  IF action \in {CreateIndexStr, DropIndexStr, CreateFulltextIndexStr}
    THEN <<"c", Sp>> \o Quoted(<<"i">>) \o <<Sp>>
    ELSE <<"c", Sp>>

\* the ways to write the table
RawTableRefs(qualifier, name) ==
  IF qualifier = <<>>
    THEN {name, Quoted(name)}
    ELSE {qualifier \o <<".">> \o name,
          Quoted(qualifier) \o <<".">> \o Quoted(name),
          qualifier \o <<".">> \o Quoted(name)}

\* the rest of the statement: a column list that names a plain column, a
\* column named like the table, a column whose name starts like the table,
\* and (for a qualified table) a column named <qualifier>_<table>
RawSuffixes(qualifier, name) ==
  {<<"(", "a", ")">>,
   <<"(">> \o name \o <<")">>,
   <<"(">> \o name \o <<"1", ")">>}
  \cup (IF qualifier = <<>> THEN {}
        ELSE {<<"(">> \o qualifier \o <<"_">> \o name \o <<")">>})

RawQueries(action, qualifier, name) ==
  {RawPrefix(action) \o ref \o suffix :
     ref \in RawTableRefs(qualifier, name), suffix \in RawSuffixes(qualifier, name)}

PlainRawQuery(action, qualifier, name) ==
  RawPrefix(action)
    \o (IF qualifier = <<>> THEN name ELSE qualifier \o <<".">> \o name)
    \o <<"(", "a", ")">>

(***************************************************************************)
(* Router states.                                                          *)
(***************************************************************************)
\* the segments a table can have: two shards, or the table itself (global)
ShardSegment(table, k) ==
  [Table |-> table \o <<"_", Digit(k)>>, Backend |-> <<"backend", k>>,
   Range |-> [Start |-> k, End |-> k + 1]]

GlobalSegment(table) ==
  [Table |-> table, Backend |-> <<"backend", 0>>, Range |-> [Start |-> 0, End |-> 2]]

SegPool(table) == {ShardSegment(table, 0), ShardSegment(table, 1), GlobalSegment(table)}

TwoShards(table) == <<ShardSegment(table, 0), ShardSegment(table, 1)>>

ShardKeys == {<<>>, <<"a">>}

(***************************************************************************)
(* The plans that are built: a statement, the session database, the raw    *)
(* query and the router.                                                   *)
(***************************************************************************)
\* every column and index the statement can name, against a table of the router
ValidatorInputs ==
  {[node |-> n, database |-> <<"d">>,
    RawQuery |-> PlainRawQuery(n.Action, <<>>, <<"t">>),
    router |-> [database |-> <<"d">>, table |-> <<"t">>, shardKey |-> sk,
                lookupErr |-> FALSE, segments |-> TwoShards(<<"t">>)]] :
     n \in UNION {NodesOf(a, <<"t">>, <<>>) :
                    a \in {AlterDropColumnStr, AlterModifyColumnStr,
                           AlterAddColumnStr, CreateTableStr}},
     sk \in ShardKeys}

\* the table qualifier and the session database of a statement
QualifierAndSession ==
  {<< <<>>, <<"d">> >>, << <<>>, <<"t">> >>, << <<>>, <<>> >>,
   << <<"d">>, <<>> >>, << <<"d">>, <<"t">> >>, << <<"t">>, <<"d">> >>}

\* every action, qualifier and session database against every router; a
\* statement on a database names no table
RouterInputs ==
  {[node |-> NodeOf(an[1], an[2], qd[1]), database |-> qd[2],
    RawQuery |-> PlainRawQuery(an[1], qd[1], an[2]),
    router |-> [database |-> rdb, table |-> rtb, shardKey |-> sk,
                lookupErr |-> le, segments |-> TwoShards(rtb)]] :
     an \in (TableActions \X TableNames) \cup (DatabaseActions \X {<<>>, <<"t">>}),
     qd \in QualifierAndSession,
     rdb \in DbNames, rtb \in TableNames, sk \in ShardKeys, le \in BOOLEAN}

\* a statement that resolves to the table of the router
PlanOn(a, nm, q, db, raw, segs) ==
  [node |-> NodeOf(a, nm, q), database |-> db, RawQuery |-> raw,
   router |-> [database |-> ResolveDatabase(NodeOf(a, nm, q), db),
               table |-> nm, shardKey |-> <<>>,
               lookupErr |-> FALSE, segments |-> segs]]

\* every way to write the statement, on a sharded and on a global table
RewriteInputs ==
  UNION {
    {PlanOn(a, nm, qd[1], qd[2], raw, segs) :
       raw \in RawQueries(a, qd[1], nm),
       segs \in {TwoShards(nm), <<GlobalSegment(nm)>>}} :
    a \in {CreateTableStr, CreateIndexStr},
    nm \in TableNames,
    qd \in QualifierAndSession \ {<< <<>>, <<>> >>}}

\* every list of segments
SegmentInputs ==
  UNION {
    {PlanOn(CreateTableStr, nm, qd[1], qd[2],
            PlainRawQuery(CreateTableStr, qd[1], nm), segs) :
       segs \in SeqsUpTo(SegPool(nm), MaxSegs)} :
    nm \in TableNames,
    qd \in QualifierAndSession \ {<< <<>>, <<>> >>}}

Inputs == ValidatorInputs \cup RouterInputs \cup RewriteInputs \cup SegmentInputs

(***************************************************************************)
(* The plan.                                                               *)
(***************************************************************************)
NoCall == [op |-> "none", val |-> <<>>]

\* NewDDLPlan
NewDDLPlan(in) ==
  /\ node = in.node
  /\ router = in.router
  /\ database = in.database
  /\ RawQuery = in.RawQuery
  /\ typ = "PlanTypeDDL"
  /\ Querys = <<>>
  /\ ReqMode = "ReqNormal"

Init ==
  /\ \E in \in Inputs : NewDDLPlan(in)
  /\ err = Nil
  /\ builds = 0
  /\ trace = <<>>
  /\ ret = NoCall

Build ==
  /\ builds < MaxBuilds
  /\ LET r == BuildPlan(node, database, RawQuery, ReqMode, Querys, router)
     IN  /\ ReqMode' = r.ReqMode
         /\ Querys' = r.Querys
         /\ err' = r.err
         /\ trace' = trace \o r.calls
         /\ ret' = [op |-> "Build", val |-> r.err]
  /\ builds' = builds + 1
  /\ UNCHANGED <<node, database, RawQuery, typ, router>>

Type ==
  /\ ret' = [op |-> "Type", val |-> typ]
  /\ UNCHANGED <<node, database, RawQuery, typ, ReqMode, Querys, router,
                 err, builds, trace>>

\* the text of the explain: a field with an empty value is left out
Explain(raw, parts) ==
  (IF raw = <<>> THEN <<>> ELSE << <<"RawQuery", raw>> >>)
    \o (IF parts = <<>> THEN <<>> ELSE << <<"Partitions", parts>> >>)

JSON ==
  /\ ret' = [op |-> "JSON", val |-> Explain(RawQuery, Querys)]
  /\ UNCHANGED <<node, database, RawQuery, typ, ReqMode, Querys, router,
                 err, builds, trace>>

Children ==
  /\ ret' = [op |-> "Children", val |-> "nil"]
  /\ UNCHANGED <<node, database, RawQuery, typ, ReqMode, Querys, router,
                 err, builds, trace>>

RECURSIVE SumQueryLen(_)
SumQueryLen(qs) ==
  IF qs = <<>> THEN 0 ELSE Len(Head(qs).Query) + SumQueryLen(Tail(qs))

PlanSize(raw, qs) == Len(raw) + SumQueryLen(qs)

Size ==
  /\ ret' = [op |-> "Size", val |-> PlanSize(RawQuery, Querys)]
  /\ UNCHANGED <<node, database, RawQuery, typ, ReqMode, Querys, router,
                 err, builds, trace>>

Next == Build \/ Type \/ JSON \/ Children \/ Size

Spec == Init /\ [][Next]_vars

(***************************************************************************)
(* CREATE TABLE in the proxy, as its tests show it (src/src/proxy/         *)
(* ddl_test.go): the database is resolved, the statement is checked by its *)
(* table type, the router creates the table, and the plan is built.        *)
(***************************************************************************)
NormalTableType == "NormalTableType"
PartitionTableType == "PartitionTableType"
GlobalTableType == "GlobalTableType"
SingleTableType == "SingleTableType"
TableTypes == {NormalTableType, PartitionTableType, GlobalTableType, SingleTableType}

\* an error as the client gets it: (errno 1105) (sqlstate HY000) unless the
\* error has a number of its own
ClientError(e) ==
  IF e # Nil /\ e.Num = 0 THEN [e EXCEPT !.Num = 1105, !.State = "HY000"] ELSE e

ErrShardKeyMissing(shardKey) ==
  [Num |-> 0, State |-> "",
   Format |-> "Sharding Key column '%s' doesn't exist in table", Arg |-> shardKey]

ErrHintRequired ==
  NewError("The unique/primary constraint shoule be defined or add 'PARTITION BY HASH' to mandatory indication")

ErrSingleNotImpl == NewError("single.table.not.impl.yet")

ErrReservedTable ==
  NewError("spanner.ddl.check.create.table[dual].error:not support")

IsUniqueIndex(index) == index.Info.Unique \/ index.Info.Primary

IndexHasColumn(index, col) == \E k \in 1..Len(index.Columns) : index.Columns[k] = col

\* CheckPartitioned that wants a unique or primary index on the shard key alone
CheckPartitionedExact(n) ==
  LET shardKey == n.PartitionName
      cols == n.TableSpec.Columns
      idxs == n.TableSpec.Indexes
  IN  IF ~\E i \in 1..Len(cols) : cols[i].Name = shardKey
        THEN [shardKey |-> <<>>, err |-> ErrShardKeyMissing(shardKey)]
      ELSE IF \E i \in 1..Len(cols) :
                 cols[i].Name # shardKey /\ cols[i].Type.KeyOpt \in ConstraintKeyOpts
        THEN [shardKey |-> <<>>, err |-> ErrConstraint(shardKey)]
      ELSE IF \E i \in 1..Len(idxs) :
                 IsUniqueIndex(idxs[i]) /\ idxs[i].Columns # <<shardKey>>
        THEN [shardKey |-> <<>>, err |-> ErrConstraint(shardKey)]
      ELSE [shardKey |-> shardKey, err |-> Nil]

\* PARTITION BY HASH(shardKey): the shard key is a column, no other column
\* has a key option, and every unique or primary index has the shard key
\* among its columns (primary key(a,b) with hash(a) is accepted)
CheckPartitioned(n) ==
  LET shardKey == n.PartitionName
      cols == n.TableSpec.Columns
      idxs == n.TableSpec.Indexes
  IN  IF ~\E i \in 1..Len(cols) : cols[i].Name = shardKey
        THEN [shardKey |-> <<>>, err |-> ErrShardKeyMissing(shardKey)]
      ELSE IF \E i \in 1..Len(cols) :
                 cols[i].Name # shardKey /\ cols[i].Type.KeyOpt \in ConstraintKeyOpts
        THEN [shardKey |-> <<>>, err |-> ErrConstraint(shardKey)]
      ELSE IF \E i \in 1..Len(idxs) :
                 IsUniqueIndex(idxs[i]) /\ ~IndexHasColumn(idxs[i], shardKey)
        THEN [shardKey |-> <<>>, err |-> ErrConstraint(shardKey)]
      ELSE [shardKey |-> shardKey, err |-> Nil]

\* the first element of a sequence that satisfies a test, given as the set
\* of the positions that satisfy it
FirstOf(positions) == CHOOSE i \in positions : \A j \in positions : i <= j

KeyColumns(n) ==
  {i \in 1..Len(n.TableSpec.Columns) :
     n.TableSpec.Columns[i].Type.KeyOpt \in ConstraintKeyOpts}

SingleColumnUniqueIndexes(n) ==
  {i \in 1..Len(n.TableSpec.Indexes) :
     IsUniqueIndex(n.TableSpec.Indexes[i]) /\ Len(n.TableSpec.Indexes[i].Columns) = 1}

AnyUniqueIndexes(n) ==
  {i \in 1..Len(n.TableSpec.Indexes) : IsUniqueIndex(n.TableSpec.Indexes[i])}

\* CheckNormal that takes the first column of any unique or primary index
CheckNormalAnyIndex(n) ==
  IF KeyColumns(n) # {}
    THEN [shardKey |-> n.TableSpec.Columns[FirstOf(KeyColumns(n))].Name, err |-> Nil]
  ELSE IF AnyUniqueIndexes(n) # {}
    THEN [shardKey |-> n.TableSpec.Indexes[FirstOf(AnyUniqueIndexes(n))].Columns[1],
          err |-> Nil]
  ELSE [shardKey |-> <<>>, err |-> ErrHintRequired]

\* no table type given: the shard key is the first column with a key option,
\* else the column of the first unique or primary index on one column; a
\* table with neither is refused
CheckNormal(n) ==
  IF KeyColumns(n) # {}
    THEN [shardKey |-> n.TableSpec.Columns[FirstOf(KeyColumns(n))].Name, err |-> Nil]
  ELSE IF SingleColumnUniqueIndexes(n) # {}
    THEN [shardKey |-> n.TableSpec.Indexes[FirstOf(SingleColumnUniqueIndexes(n))].Columns[1],
          err |-> Nil]
  ELSE [shardKey |-> <<>>, err |-> ErrHintRequired]

\* CheckSingle of a proxy without single tables
CheckSingleNotImpl(n) == {[shardKey |-> <<>>, err |-> ErrSingleNotImpl]}

\* SINGLE: what the tests admit.  A table without constraints is created;
\* for one with a constraint the tests admit creation and the error
\* single.table.not.impl.yet.
CheckSingle(n) ==
  {[shardKey |-> <<>>, err |-> Nil]}
    \cup (IF KeyColumns(n) # {} \/ AnyUniqueIndexes(n) # {}
            THEN {[shardKey |-> <<>>, err |-> ErrSingleNotImpl]} ELSE {})

\* the outcomes of the check of a CREATE TABLE
CheckCreateTable(n) ==
  IF n.Table.Name = <<"d", "u", "a", "l">>
    THEN {[shardKey |-> <<>>, err |-> ErrReservedTable]}
  ELSE IF n.TableType = PartitionTableType THEN {CheckPartitioned(n)}
  ELSE IF n.TableType = NormalTableType THEN {CheckNormal(n)}
  ELSE IF n.TableType = SingleTableType THEN CheckSingle(n)
  ELSE {[shardKey |-> <<>>, err |-> Nil]}

\* the segments the router gives a new table
CreatedSegments(n) ==
  IF n.TableType \in {PartitionTableType, NormalTableType} THEN TwoShards(n.Table.Name)
  ELSE IF n.TableType = GlobalTableType
    THEN <<GlobalSegment(n.Table.Name),
           [GlobalSegment(n.Table.Name) EXCEPT !.Backend = <<"backend", 1>>]>>
  ELSE <<GlobalSegment(n.Table.Name)>>

\* router.CreateTable
RouterCreateTable(rt, n, shardKey) ==
  [rt EXCEPT !.table = n.Table.Name, !.shardKey = shardKey,
             !.segments = CreatedSegments(n)]

\* the tables that are created: one or two columns, each with a key option
CreateColumns ==
  {<<[Name |-> <<"a">>, Type |-> [KeyOpt |-> k]]>> : k \in KeyOpts}
  \cup {<<[Name |-> <<"a">>, Type |-> [KeyOpt |-> k[1]]],
          [Name |-> <<"b">>, Type |-> [KeyOpt |-> k[2]]]>> : k \in KeyOpts \X KeyOpts}

CreateNodes ==
  {[Action |-> CreateTableStr,
    Table |-> [Name |-> <<"t">>, Qualifier |-> <<>>],
    DropColumnName |-> <<>>, ModifyColumnDef |-> ZeroColDef,
    TableSpec |-> [Columns |-> cols, Indexes |-> idxs],
    TableType |-> tp[1], PartitionName |-> tp[2]] :
     cols \in CreateColumns,
     idxs \in SeqsUpTo(IndexDefs, MaxIdx),
     tp \in ((TableTypes \ {PartitionTableType}) \X {<<>>})
              \cup ({PartitionTableType} \X ColNames)}

\* the plan of a CREATE TABLE on a router that has the database d and no table
InitCreate ==
  /\ node \in CreateNodes
  /\ database \in {<<>>, <<"d">>}
  /\ RawQuery = PlainRawQuery(CreateTableStr, <<>>, <<"t">>)
  /\ router = [database |-> <<"d">>, table |-> <<>>, shardKey |-> <<>>,
               lookupErr |-> FALSE, segments |-> <<>>]
  /\ typ = "PlanTypeDDL"
  /\ Querys = <<>>
  /\ ReqMode = "ReqNormal"
  /\ err = Nil
  /\ builds = 0
  /\ trace = <<>>
  /\ ret = NoCall

\* the proxy handles the CREATE TABLE
HandleCreateTable ==
  /\ ret = NoCall
  /\ node.Action = CreateTableStr
  /\ IF ResolveDatabase(node, database) # router.database
       THEN /\ err' = ErrUnknownDatabase(ResolveDatabase(node, database))
            /\ UNCHANGED <<router, ReqMode, Querys, builds, trace>>
       ELSE \E check \in CheckCreateTable(node) :
              IF check.err # Nil
                THEN /\ err' = ClientError(check.err)
                     /\ UNCHANGED <<router, ReqMode, Querys, builds, trace>>
                ELSE LET rt == RouterCreateTable(router, node, check.shardKey)
                         r == BuildPlan(node, database, RawQuery, ReqMode, Querys, rt)
                     IN  /\ router' = rt
                         /\ ReqMode' = r.ReqMode
                         /\ Querys' = r.Querys
                         /\ err' = ClientError(r.err)
                         /\ trace' = trace \o r.calls
                         /\ builds' = builds + 1
  /\ ret' = [op |-> "CreateTable", val |-> err']
  /\ UNCHANGED <<node, database, RawQuery, typ>>

NextCreate == HandleCreateTable

SpecCreate == InitCreate /\ [][NextCreate]_vars

(***************************************************************************)
(* Properties.                                                             *)
(***************************************************************************)
\* the database and table of the statement, and what the router answers
PlanDatabase == ResolveDatabase(node, database)
PlanTable == node.Table.Name
AskedKey == ShardKey(router, PlanDatabase, PlanTable)
LookedUp == Lookup(router, PlanDatabase, PlanTable)

\* sub occurs in s
Contains(s, sub) ==
  \E i \in 1..(Len(s) - Len(sub) + 1) : SubSeq(s, i, i + Len(sub) - 1) = sub

\* w occurs in s as a whole word
IsLetterAt(s, i) == i \in 1..Len(s) /\ s[i] \in WordChars
HasWord(s, w) ==
  \E i \in 1..(Len(s) - Len(w) + 1) :
     /\ SubSeq(s, i, i + Len(w) - 1) = w
     /\ ~IsLetterAt(s, i - 1)
     /\ ~IsLetterAt(s, i + Len(w))

\* the first Build of a statement on a table has returned no error
Accepted == builds = 1 /\ node.Action \notin DatabaseActions /\ err = Nil

\* the table has a shard key
Sharded == AskedKey.err = Nil /\ AskedKey.key # <<>>

\* C1: a Build of a statement on a table that returns no error leaves one
\* tuple per segment of Lookup, in Lookup's order, tuple i with the Backend
\* and the Range of segment i.
C1_OneTuplePerSegment ==
  Accepted =>
    /\ Len(Querys) = Len(LookedUp.segments)
    /\ \A i \in 1..Len(Querys) :
         /\ Querys[i].Backend = LookedUp.segments[i].Backend
         /\ Querys[i].Range = RangeString(LookedUp.segments[i].Range)

C1_Witness ==
  /\ Accepted
  /\ Len(Querys) = 2
  /\ Querys[1].Backend # Querys[2].Backend
  /\ Querys[1].Range # Querys[2].Range

C3_CreateDatabaseScatters ==
  [][(node.Action = CreateDBStr /\ builds' = builds + 1) =>
       /\ err' = Nil
       /\ ReqMode' = "ReqScatter"
       /\ Querys' = <<>>
       /\ RawQuery' = RawQuery
       /\ trace' = <<>>]_vars

C3_Witness ==
  /\ node.Action = CreateDBStr
  /\ builds = 1
  /\ ReqMode = "ReqScatter"
  /\ AskedKey.err # Nil
  /\ node.Table.Name # <<>>

\* C4 as claimed: a Build of DROP DATABASE returns no error, sets the mode to
\* scatter and leaves Querys empty, whatever the router.
C4_DropDatabaseScatters ==
  (node.Action = DropDBStr /\ builds >= 1) =>
    /\ err = Nil
    /\ ReqMode = "ReqScatter"
    /\ Querys = <<>>

\* C5: with no session database and no qualifier, a Build of a statement on
\* a table fails with Unknown database '' (1049) and emits nothing.
C5_UnknownDatabase ==
  (/\ builds = 1
   /\ node.Action \notin DatabaseActions
   /\ database = <<>>
   /\ node.Table.Qualifier = <<>>) =>
    /\ err.Num = 1049
    /\ err.Format = "Unknown database '%s'"
    /\ err.Arg = <<>>
    /\ Querys = <<>>

C5_Witness ==
  /\ builds = 1
  /\ node.Action = AlterEngineStr
  /\ database = <<>>
  /\ node.Table.Qualifier = <<>>
  /\ node.Table.Name = <<"a", "b">>
  /\ err.Num = 1049

\* C6: on a table with a shard key, dropping a column fails with the
\* drop-the-shard-key error exactly when the column is the shard key; any
\* other column passes the check (what Lookup answers is what Build returns).
C6_DropShardKey ==
  (builds = 1 /\ node.Action = AlterDropColumnStr /\ Sharded) =>
    /\ (err = ErrDropShardKey) <=> (node.DropColumnName = AskedKey.key)
    /\ (node.DropColumnName # AskedKey.key) => (err = LookedUp.err)

C6_Witness ==
  /\ builds = 1
  /\ node.Action = AlterDropColumnStr
  /\ Sharded
  /\ node.DropColumnName = AskedKey.key
  /\ err.Format = "unsupported: cannot.drop.the.column.on.shard.key"

\* C7: on a table with a shard key, modifying the shard key column fails
\* with the modify-the-shard-key error, also when the new definition has a
\* key option.
C7_ModifyShardKey ==
  (/\ builds = 1
   /\ node.Action = AlterModifyColumnStr
   /\ Sharded
   /\ node.ModifyColumnDef.Name = AskedKey.key) =>
    err = ErrModifyShardKey

C7_Witness ==
  /\ builds = 1
  /\ node.Action = AlterModifyColumnStr
  /\ Sharded
  /\ node.ModifyColumnDef.Name = AskedKey.key
  /\ node.ModifyColumnDef.Type.KeyOpt = ColKeyPrimary
  /\ err.Format = "unsupported: cannot.modify.the.column.on.shard.key"

\* C8: on a table with a shard key sk, modifying another column fails with
\* the constraint error naming sk exactly when the definition has one of the
\* key options Unique, UniqueKey, Primary, Key; with no key option it passes.
C8_ModifyOtherColumn ==
  (/\ builds = 1
   /\ node.Action = AlterModifyColumnStr
   /\ Sharded
   /\ node.ModifyColumnDef.Name # AskedKey.key) =>
    /\ (err = ErrConstraint(AskedKey.key))
         <=> (node.ModifyColumnDef.Type.KeyOpt
                \in {ColKeyUnique, ColKeyUniqueKey, ColKeyPrimary, ColKey})
    /\ (node.ModifyColumnDef.Type.KeyOpt = ColKeyNone) => (err = LookedUp.err)

C8_Witness ==
  /\ builds = 1
  /\ node.Action = AlterModifyColumnStr
  /\ Sharded
  /\ node.ModifyColumnDef.Name # AskedKey.key
  /\ node.ModifyColumnDef.Type.KeyOpt = ColKey
  /\ err.Arg = <<"a">>
  /\ err.Format =
       "The unique/primary constraint should be only defined on the sharding key column[%s]"

\* C9 as claimed: on a table with a shard key sk, adding columns fails with
\* the constraint error exactly when an added column with a key option is
\* not sk, or an added unique or primary index is not on exactly [sk].
C9_AddColumnRule ==
  (builds = 1 /\ node.Action = AlterAddColumnStr /\ Sharded) =>
    ((err = ErrConstraint(AskedKey.key)) <=>
       \/ \E i \in 1..Len(node.TableSpec.Columns) :
             /\ node.TableSpec.Columns[i].Type.KeyOpt
                  \in {ColKeyUnique, ColKeyUniqueKey, ColKeyPrimary, ColKey}
             /\ node.TableSpec.Columns[i].Name # AskedKey.key
       \/ \E i \in 1..Len(node.TableSpec.Indexes) :
             /\ \/ node.TableSpec.Indexes[i].Info.Unique
                \/ node.TableSpec.Indexes[i].Info.Primary
             /\ node.TableSpec.Indexes[i].Columns # <<AskedKey.key>>)

\* C10: when the shard key is empty, or the action is none of drop, modify
\* and add column, Build returns the error of ShardKey, else the error of
\* Lookup, else none, whatever the statement names.
C10_OnlyRouterErrors ==
  (/\ builds = 1
   /\ node.Action # CreateDBStr
   /\ \/ AskedKey.key = <<>>
      \/ node.Action \notin {AlterDropColumnStr, AlterModifyColumnStr, AlterAddColumnStr}) =>
    err = (IF AskedKey.err # Nil THEN AskedKey.err ELSE LookedUp.err)

C10_Witness ==
  /\ builds = 1
  /\ node.Action = AlterAddColumnStr
  /\ AskedKey.err = Nil
  /\ AskedKey.key = <<>>
  /\ Len(node.TableSpec.Columns) >= 1
  /\ node.TableSpec.Columns[1].Type.KeyOpt = ColKeyPrimary
  /\ Len(node.TableSpec.Indexes) >= 1
  /\ node.TableSpec.Indexes[1].Info.Unique
  /\ err = Nil
  /\ Querys # <<>>

\* C11: a first Build that returns an error leaves Querys empty, and an
\* error of router.ShardKey or router.Lookup is returned as the router made it.
C11_FailFast ==
  (builds = 1 /\ err # Nil) =>
    /\ Querys = <<>>
    /\ (node.Action # CreateDBStr /\ AskedKey.err # Nil) => (err = AskedKey.err)
    /\ (/\ node.Action # CreateDBStr
        /\ AskedKey.err = Nil
        /\ CheckShardKey(node, AskedKey.key) = Nil) => (err = LookedUp.err)

C11_Witness ==
  /\ builds = 1
  /\ AskedKey.err = Nil
  /\ router.lookupErr
  /\ router.segments # <<>>
  /\ err = ErrRouterInternal
  /\ Querys = <<>>

\* the proxy has handled the CREATE TABLE, and the database was known
Handled == ret.op = "CreateTable" /\ ResolveDatabase(node, database) = router.database

HasColumn(col) ==
  \E i \in 1..Len(node.TableSpec.Columns) : node.TableSpec.Columns[i].Name = col

\* every column with a key option is the column sk
KeyOptionsOn(sk) ==
  \A i \in 1..Len(node.TableSpec.Columns) :
     node.TableSpec.Columns[i].Type.KeyOpt
        \in {ColKeyUnique, ColKeyUniqueKey, ColKeyPrimary, ColKey}
       => node.TableSpec.Columns[i].Name = sk

DeclaresConstraint ==
  \/ \E i \in 1..Len(node.TableSpec.Columns) :
        node.TableSpec.Columns[i].Type.KeyOpt
          \in {ColKeyUnique, ColKeyUniqueKey, ColKeyPrimary, ColKey}
  \/ \E i \in 1..Len(node.TableSpec.Indexes) :
        node.TableSpec.Indexes[i].Info.Unique \/ node.TableSpec.Indexes[i].Info.Primary

\* the table declares a constraint that names one column
DeclaresOneColumnConstraint ==
  \/ \E i \in 1..Len(node.TableSpec.Columns) :
        node.TableSpec.Columns[i].Type.KeyOpt
          \in {ColKeyUnique, ColKeyUniqueKey, ColKeyPrimary, ColKey}
  \/ \E i \in 1..Len(node.TableSpec.Indexes) :
        /\ node.TableSpec.Indexes[i].Info.Unique \/ node.TableSpec.Indexes[i].Info.Primary
        /\ Len(node.TableSpec.Indexes[i].Columns) = 1

ReplaceFirstWord(s, pat, repl) ==
  LET at == {i \in 1..Len(s) : MatchAt(s, pat, i)}
  IN  IF at = {} \/ pat = <<>> THEN s
      ELSE LET i == CHOOSE m \in at : \A o \in at : m <= o
           IN  SubSeq(s, 1, i - 1) \o repl \o SubSeq(s, i + Len(pat), Len(s))

\* C15: for an unqualified table, the query of each segment is the raw query
\* without its first two backticks and with only the first whole-word
\* occurrence of the table name replaced by the quoted <db>.<physical table>;
\* later occurrences of the name stay.
C15_OnlyFirstReplaced ==
  (Accepted /\ node.Table.Qualifier = <<>>) =>
    \A i \in 1..Len(Querys) :
       Querys[i].Query =
         ReplaceFirstWord(StripBackticks(RawQuery, 2), PlanTable,
                          QuotedName(PlanDatabase, LookedUp.segments[i].Table))

\* w stands at position i of s as a whole word, character for character
LiteralAt(s, w, i) ==
  /\ i + Len(w) - 1 <= Len(s)
  /\ SubSeq(s, i, i + Len(w) - 1) = w
  /\ Boundary(s, i)
  /\ Boundary(s, i + Len(w))

\* s with every whole-word occurrence of the text w replaced by repl
RECURSIVE ReplaceLiteral(_, _, _, _)
ReplaceLiteral(s, w, repl, i) ==
  IF i > Len(s) THEN <<>>
  ELSE IF LiteralAt(s, w, i) THEN repl \o ReplaceLiteral(s, w, repl, i + Len(w))
  ELSE <<s[i]>> \o ReplaceLiteral(s, w, repl, i + 1)

\* C16: for a qualified table db.table, the query of each segment is the raw
\* query without its first four backticks and with the whole-word occurrences
\* of the literal text db.table, and nothing else, replaced: a text with
\* another character in the place of the dot, or in another case, stays.
C16_LiteralOnly ==
  (Accepted /\ node.Table.Qualifier # <<>>) =>
    \A i \in 1..Len(Querys) :
       Querys[i].Query =
         ReplaceLiteral(StripBackticks(RawQuery, 4), DottedName(PlanDatabase, PlanTable),
                        QuotedName(PlanDatabase, LookedUp.segments[i].Table), 1)

\* the name w occurs in s once, so no other identifier of s starts with it
OccursOnce(s, w) ==
  Cardinality({i \in 1..(Len(s) - Len(w) + 1) : SubSeq(s, i, i + Len(w) - 1) = w}) = 1

\* C17: when the table name shares no prefix with another identifier of the
\* raw query, the rewriter run again on the query of a segment, as a
\* statement on <db>.<physical table> (what the query then names), returns
\* that query unchanged.
C17_RewriteIdempotent ==
  (Accepted /\ OccursOnce(RawQuery, PlanTable)) =>
    \A i \in 1..Len(Querys) :
       RewriteQuery(Querys[i].Query, PlanDatabase, PlanDatabase,
                    LookedUp.segments[i].Table, LookedUp.segments[i].Table)
         = Querys[i].Query

\* the positions of the trace where fn was called
CallsOf(fn) == {k \in 1..Len(trace) : trace[k].fn = fn}

\* C18: the first Build of a statement on a table calls router.ShardKey once
\* and first; it calls router.Lookup at most once, and only when ShardKey
\* returned no error and the validator accepted; it appends a tuple only
\* after Lookup returned no error; and the call that fails is the last.
C18_CallOrder ==
  (builds = 1 /\ node.Action \notin DatabaseActions) =>
    /\ CallsOf("ShardKey") = {1}
    /\ Cardinality(CallsOf("Lookup")) <= 1
    /\ CallsOf("Lookup") # {} =>
         /\ CallsOf("Lookup") = {2}
         /\ AskedKey.err = Nil
         /\ CheckShardKey(node, AskedKey.key) = Nil
    /\ CallsOf("append") # {} =>
         /\ CallsOf("Lookup") = {2}
         /\ LookedUp.err = Nil
         /\ \A k \in CallsOf("append") : k > 2
    /\ err # Nil =>
         /\ CallsOf("append") = {}
         /\ trace[Len(trace)].fn \in {"ShardKey", "Lookup"}
         /\ (AskedKey.err # Nil \/ CheckShardKey(node, AskedKey.key) # Nil)
              => trace = <<trace[1]>>

C18_Witness ==
  /\ builds = 1
  /\ node.Action = AlterModifyColumnStr
  /\ Sharded
  /\ err = Nil
  /\ Len(trace) = 4
  /\ trace[1].fn = "ShardKey"
  /\ trace[2].fn = "Lookup"
  /\ trace[3].fn = "append"
  /\ trace[4].fn = "append"
  /\ Len(Querys) = 2

\* C19: in the first Build of a statement on a table the database is the
\* qualifier of the table when there is one and the database of the session
\* otherwise; router.ShardKey and router.Lookup (with both bounds nil) get
\* that database and the table of the statement, and the rewriter puts that
\* database into the query of every segment.
C19_OneDatabase ==
  (builds = 1 /\ node.Action \notin DatabaseActions) =>
    LET db == IF node.Table.Qualifier # <<>> THEN node.Table.Qualifier ELSE database
        strip == IF node.Table.Qualifier # <<>> THEN 4 ELSE 2
    IN  /\ \A k \in CallsOf("ShardKey") \cup CallsOf("Lookup") :
             trace[k].db = db /\ trace[k].table = node.Table.Name
        /\ \A k \in CallsOf("Lookup") : trace[k].bounds = <<"nil", "nil">>
        /\ err = Nil =>
             \A i \in 1..Len(Querys) :
                /\ Querys[i].Query =
                     RewriteQuery(RawQuery, node.Table.Qualifier, db,
                                  node.Table.Name, router.segments[i].Table)
                /\ Querys[i].Query # StripBackticks(RawQuery, strip)
                     => Contains(Querys[i].Query, <<Bq>> \o db \o <<Bq, ".", Bq>>)

C19_Witness ==
  /\ builds = 1
  /\ node.Table.Qualifier = <<"d">>
  /\ database = <<"t">>
  /\ err = Nil
  /\ Len(trace) >= 2
  /\ trace[1].db = <<"d">>
  /\ trace[2].fn = "Lookup"
  /\ trace[2].db = <<"d">>
  /\ Len(Querys) >= 1
  /\ Contains(Querys[1].Query, <<Bq, "d", Bq, ".", Bq>>)

\* C20: once Build has returned, no call of Type, JSON, Children, Size or
\* Build changes RawQuery, the request mode or Querys.
C20_ImmutableAfterBuild ==
  [][builds >= 1 => UNCHANGED <<RawQuery, ReqMode, Querys>>]_vars

\* w stands in s with no backtick right before it and none right after it
StandsClean(s, w) ==
  \E p \in 1..(Len(s) - Len(w) + 1) :
     /\ SubSeq(s, p, p + Len(w) - 1) = w
     /\ (p > 1 => s[p - 1] # Bq)
     /\ (p + Len(w) <= Len(s) => s[p + Len(w)] # Bq)

\* C21: for an unqualified table that the raw query writes in backticks,
\* also after another identifier in backticks (the index of a statement on an
\* index), the query of each segment holds the quoted <db>.<physical table>
\* with no further backtick right before or after it.
C21_TableBackticksRemoved ==
  (Accepted /\ node.Table.Qualifier = <<>> /\ Contains(RawQuery, Quoted(PlanTable))) =>
    \A i \in 1..Len(Querys) :
       StandsClean(Querys[i].Query,
                   QuotedName(PlanDatabase, LookedUp.segments[i].Table))
====
